---- MODULE Spec2Model ----
(***************************************************************************)
(* Model of the paper-trading ledger of the trading bot                    *)
(* (src/src/paper_trader.py): PaperTrader.process_order,                   *)
(* PaperTrader.check_stop_take, Position.update and the trade log; of the  *)
(* market-data client (src/src/alor_client.py): the REST queries and       *)
(* AlorClient.subscribe_quotes; and of the report over the trade log       *)
(* (src/src/reporting.py): generate_report.                                *)
(*                                                                         *)
(* Six specifications share the variables: Spec (one ledger, calls in      *)
(* sequence), LogSpec (the ledger constructed repeatedly on one log path), *)
(* RaceSpec (two threads calling process_order on one ledger), ClientSpec  *)
(* (REST queries and one subscribe_quotes invocation), ClientFairSpec (the *)
(* same with every step of a begun invocation eventually taken) and        *)
(* ReportSpec (generate_report on a trade log).  Each leaves the variables *)
(* of the others at their initial values.                                  *)
(*                                                                         *)
(* Python floats are modelled as exact numbers: quantities, prices and     *)
(* cash are integers, the average price is an exact rational n/d kept in   *)
(* lowest terms.  NaN and infinities are outside the model.  An            *)
(* Optional[float] is the empty set (None) or a singleton set.  The        *)
(* timestamp column of a trade-log row is left out: no operation reads it. *)
(***************************************************************************)
EXTENDS Integers, Sequences, FiniteSets, TLC

\* ------------------------------------------------------------------ bounds

\* Calls made on the ledger in one run (process_order and check_stop_take).
MaxCalls == 3

\* The values the inputs are drawn from.  Quantity 0 and price 0 are the
\* invalid ones; TradeSide is "BUY" or "SELL".
Symbols == {"SBER", "GAZP"}
Sides == {"BUY", "SELL"}
Quantities == {0, 1, 2}
Prices == {0, 1, 2}
StopLevels == {1}
TakeLevels == {1, 2}
InitialCashes == {3}

\* ------------------------------------------------------- optional values

None == {}
Some(v) == {v}
Get(opt) == CHOOSE v \in opt : TRUE
Optional(S) == {None} \cup {Some(v) : v \in S}

\* ----------------------------------------------------- exact arithmetic

RECURSIVE Gcd(_, _)
Gcd(a, b) == IF b = 0 THEN a ELSE Gcd(b, a % b)

\* The number n/d (d > 0, n >= 0) in lowest terms.
Rat(n, d) == LET g == Gcd(n, d) IN [n |-> n \div g, d |-> d \div g]
Zero == Rat(0, 1)

\* ----------------------------------------------------------- Position

NewPosition(symbol) ==
    [symbol |-> symbol, quantity |-> 0, avg_price |-> Zero,
     stop_loss |-> None, take_profit |-> None]

WeightedAverageNewFillOnly(avg, oldQty, price, fill) ==
    Rat(price, 1)

\* total_cost / self.quantity, with total_cost = avg_price * quantity + price * fill.
WeightedAverage(avg, oldQty, price, fill) ==
    Rat(avg.n * oldQty + price * fill * avg.d, avg.d * (oldQty + fill))

BuyUpdate(pos, quantity, price) ==
    LET q == pos.quantity + quantity IN
    [pos EXCEPT !.quantity = q,
                !.avg_price = IF q > 0
                              THEN WeightedAverage(pos.avg_price, pos.quantity, price, quantity)
                              ELSE @]

SellUpdateKeepsFields(pos, quantity) ==
    LET q == pos.quantity - quantity IN
    IF q <= 0 THEN [pos EXCEPT !.quantity = 0, !.avg_price = Zero]
    ELSE [pos EXCEPT !.quantity = q]

SellUpdate(pos, quantity) ==
    LET q == pos.quantity - quantity IN
    IF q <= 0
    THEN [pos EXCEPT !.quantity = 0, !.avg_price = Zero,
                     !.stop_loss = None, !.take_profit = None]
    ELSE [pos EXCEPT !.quantity = q]

\* Position.update; the ValueError branch for an unknown side is not reached
\* from process_order, which passes "BUY" or "SELL" only.
PositionUpdate(pos, side, quantity, price) ==
    IF side = "BUY" THEN BuyUpdate(pos, quantity, price)
    ELSE IF side = "SELL" THEN SellUpdate(pos, quantity)
    ELSE pos

\* -------------------------------------------------------------- Order

Orders ==
    [symbol : Symbols, side : Sides, quantity : Quantities, price : Prices,
     stop_loss : Optional(StopLevels), take_profit : Optional(TakeLevels)]

\* ----------------------------------------------------------- trade log

HeaderRow ==
    [kind |-> "header",
     columns |-> <<"timestamp", "symbol", "side", "quantity", "price",
                   "stop_loss", "take_profit", "cash">>]

\* _ensure_log_header on a file given as its rows, or as NoFile when absent.
NoFile == <<[kind |-> "absent"]>>
EnsureLogHeader(file) == IF file = NoFile THEN <<HeaderRow>> ELSE file

TradeRow(order, position, c) ==
    [kind |-> "trade", symbol |-> order.symbol, side |-> order.side,
     quantity |-> order.quantity, price |-> order.price,
     stop_loss |-> position.stop_loss, take_profit |-> position.take_profit,
     cash |-> c]

LogTradeTruncates(file, order, position, c) ==
    <<HeaderRow, TradeRow(order, position, c)>>

\* _log_trade: one row appended to the file.
LogTrade(file, order, position, c) == Append(file, TradeRow(order, position, c))

\* ------------------------------------------------------- process_order

Result(c, ps, file, outcome) ==
    [cash |-> c, positions |-> ps, logFile |-> file, outcome |-> outcome]

\* self.positions.setdefault(symbol, Position(symbol=symbol))
SetDefault(ps, symbol) ==
    IF symbol \in DOMAIN ps THEN ps
    ELSE [s \in DOMAIN ps \cup {symbol} |->
            IF s = symbol THEN NewPosition(symbol) ELSE ps[s]]

PopKeepsEntry(ps, symbol) == ps

\* self.positions.pop(symbol, None)
Pop(ps, symbol) == [s \in DOMAIN ps \ {symbol} |-> ps[s]]

InvalidQuantity(order) == order.quantity <= 0

InvalidPriceAllowsZero(order) == order.price < 0

InvalidPrice(order) == order.price <= 0

InsufficientFundsReversed(cost, c) == c > cost

InsufficientFunds(cost, c) == cost > c

InsufficientPositionOrEqual(position, order) == position.quantity <= order.quantity

InsufficientPosition(position, order) == position.quantity < order.quantity

StopNotBelowTake(order) ==
    /\ order.stop_loss # None
    /\ order.take_profit # None
    /\ Get(order.stop_loss) >= Get(order.take_profit)

SetStopTakeFromOrder(position, order) ==
    IF position.quantity > 0
    THEN [position EXCEPT !.stop_loss = order.stop_loss,
                          !.take_profit = order.take_profit]
    ELSE [position EXCEPT !.stop_loss = None, !.take_profit = None]

\* Lines 104-111: the position's stop-loss and take-profit after the fill.
SetStopTake(position, order) ==
    IF position.quantity > 0
    THEN [position EXCEPT
            !.stop_loss = IF order.stop_loss # None THEN order.stop_loss ELSE @,
            !.take_profit = IF order.take_profit # None THEN order.take_profit ELSE @]
    ELSE [position EXCEPT !.stop_loss = None, !.take_profit = None]

AfterFillSetsBeforeCheck(c, ps, file, order, position) ==
    LET p2 == SetStopTake(position, order)
        file2 == LogTrade(file, order, p2, c)
    IN IF StopNotBelowTake(order)
       THEN Result(c, [ps EXCEPT ![order.symbol] = p2], file, "ErrStopTake")
       ELSE Result(c,
                   IF p2.quantity = 0 THEN Pop(ps, order.symbol)
                   ELSE [ps EXCEPT ![order.symbol] = p2],
                   file2, "ok")

\* Lines 100-116, entered with the cash and the position as the fill left them.
AfterFill(c, ps, file, order, position) ==
    LET filled == [ps EXCEPT ![order.symbol] = position] IN
    IF StopNotBelowTake(order) THEN Result(c, filled, file, "ErrStopTake")
    ELSE LET p2 == SetStopTake(position, order)
             file2 == LogTrade(file, order, p2, c)
         IN Result(c,
                   IF p2.quantity = 0 THEN Pop(ps, order.symbol)
                   ELSE [ps EXCEPT ![order.symbol] = p2],
                   file2, "ok")

\* process_order: the state it leaves and how it ends ("ok", or the raise site).
\* The last branch is the raise for a side other than "BUY" and "SELL"; the
\* inputs drawn from Sides do not reach it.
ProcessOrderResult(c, ps, file, order) ==
    IF InvalidQuantity(order) THEN Result(c, ps, file, "ErrQuantity")
    ELSE IF InvalidPrice(order) THEN Result(c, ps, file, "ErrPrice")
    ELSE
      LET ps1 == SetDefault(ps, order.symbol)
          position == ps1[order.symbol]
      IN IF order.side = "BUY" THEN
           LET cost == order.quantity * order.price IN
           IF InsufficientFunds(cost, c) THEN Result(c, ps1, file, "ErrFunds")
           ELSE AfterFill(c - cost, ps1, file, order,
                          PositionUpdate(position, "BUY", order.quantity, order.price))
         ELSE IF order.side = "SELL" THEN
           IF InsufficientPosition(position, order)
           THEN Result(c, ps1, file, "ErrPosition")
           ELSE AfterFill(c + order.quantity * order.price, ps1, file, order,
                          PositionUpdate(position, "SELL", order.quantity, order.price))
         ELSE Result(c, ps1, file, "ErrSide")

\* ------------------------------------------------------ check_stop_take

SyntheticOrder(symbol, position, current_price, sl, tp) ==
    [symbol |-> symbol, side |-> "SELL", quantity |-> position.quantity,
     price |-> current_price, stop_loss |-> sl, take_profit |-> tp]

\* The returned Order as Some(order), or None.
CheckStopTakeResultTakeFirst(ps, symbol, current_price) ==
    IF symbol \notin DOMAIN ps \/ ps[symbol].quantity = 0 THEN None
    ELSE LET position == ps[symbol] IN
         IF position.take_profit # None /\ current_price >= Get(position.take_profit)
         THEN Some(SyntheticOrder(symbol, position, current_price, None, position.take_profit))
         ELSE IF position.stop_loss # None /\ current_price <= Get(position.stop_loss)
         THEN Some(SyntheticOrder(symbol, position, current_price, position.stop_loss, None))
         ELSE None

CheckStopTakeResult(ps, symbol, current_price) ==
    IF symbol \notin DOMAIN ps \/ ps[symbol].quantity = 0 THEN None
    ELSE LET position == ps[symbol] IN
         IF position.stop_loss # None /\ current_price <= Get(position.stop_loss)
         THEN Some(SyntheticOrder(symbol, position, current_price, position.stop_loss, None))
         ELSE IF position.take_profit # None /\ current_price >= Get(position.take_profit)
         THEN Some(SyntheticOrder(symbol, position, current_price, None, position.take_profit))
         ELSE None

\* ---------------------------------------------------------------- state

VARIABLES
    initial_cash,   \* the constructor's initial_cash
    cash,           \* PaperTrader.cash
    positions,      \* PaperTrader.positions: symbol -> Position
    logFile,        \* the rows of the file at _trades_log_path
    nCalls,         \* calls made on the ledger
    nOk,            \* process_order calls that returned without error
    call,           \* the last call: operation, arguments, outcome, return value
    pre             \* cash, positions and logFile as the last call found them

ledgerVars == <<initial_cash, cash, positions, logFile, nCalls, nOk, call, pre>>

VARIABLES
    reconnect_attempts, \* subscribe_quotes' reconnect_attempts argument
    max_messages,       \* subscribe_quotes' max_messages argument: None or a number
    sq,                 \* subscribe_quotes' position, locals and outcome
    obs,                \* what the invocation did so far: connections, frames, sleeps
    rest                \* the last REST query: the response and the outcome

clientVars == <<reconnect_attempts, max_messages, sq, obs, rest>>

VARIABLES
    threads,    \* per thread: where its process_order invocation stands, its locals
    race        \* whether invocations overlapped; units filled per symbol

raceVars == <<threads, race>>

vars == <<ledgerVars, clientVars, raceVars>>

NoPayload == "-"

\* subscribe_quotes not called; attempts and subscriptions_sent as lines
\* 156-157 set them.
SqIdle ==
    [pc |-> "idle", attempts |-> 0, subscriptions_sent |-> FALSE, received |-> 0,
     payload |-> NoPayload, result |-> "none", coroutine |-> FALSE]

NoEvent == [step |-> "none", outcome |-> "none"]
Counters(s, o) ==
    [attempts |-> s.attempts, sleeps |-> o.sleeps, connects |-> o.connects,
     connect_calls |-> o.connect_calls, callbacks |-> o.callbacks,
     dispatched |-> Len(o.dispatched), passed |-> o.passed]
ObsIdle ==
    LET o == [connect_calls |-> 0, connects |-> 0, subscribe_frames |-> 0,
              recv_on |-> {}, frames |-> 0, callbacks |-> 0, dispatched |-> <<>>,
              parsed |-> <<>>, passed |-> <<>>, sleeps |-> 0, ev |-> NoEvent]
    IN [connect_calls |-> 0, connects |-> 0, subscribe_frames |-> 0,
        recv_on |-> {}, frames |-> 0, callbacks |-> 0, dispatched |-> <<>>,
        parsed |-> <<>>, passed |-> <<>>, sleeps |-> 0, ev |-> NoEvent,
        prev |-> Counters(SqIdle, o)]

RestIdle == [op |-> "none", response |-> "none", requests |-> 0, raised |-> "none",
             ret |-> "none"]

NoSymbol == "-"

\* Two threads that may call process_order on the one ledger.
Threads == {"t1", "t2"}
NoOrder ==
    [symbol |-> NoSymbol, side |-> "-", quantity |-> 0, price |-> 0,
     stop_loss |-> None, take_profit |-> None]
NoSnapshot == [cash |-> 0, positions |-> [s \in {} |-> NewPosition(s)], logFile |-> <<>>]
IdleThread ==
    [pc |-> "idle", order |-> NoOrder, attached |-> TRUE,
     own |-> NewPosition(NoSymbol), outcome |-> "none", start |-> NoSnapshot]

\* No thread calls the ledger.
RaceIdle ==
    /\ threads = [t \in Threads |-> IdleThread]
    /\ race = [overlap |-> FALSE, last |-> "-", net |-> [s \in Symbols |-> 0]]

\* An AlorClient on which nothing was called yet.
ClientIdle ==
    /\ reconnect_attempts = 0
    /\ max_messages = None
    /\ sq = SqIdle
    /\ obs = ObsIdle
    /\ rest = RestIdle

NoCall ==
    [op |-> "init", symbol |-> NoSymbol, side |-> "-", valid_quantity |-> TRUE,
     valid_price |-> TRUE, current_price |-> 0, outcome |-> "ok", ret |-> None,
     fed |-> FALSE]

Snapshot == [cash |-> cash, positions |-> positions, logFile |-> logFile]

\* PaperTrader.__init__ with a log path at which no file exists yet.
Init ==
    /\ initial_cash \in InitialCashes
    /\ cash = initial_cash
    /\ positions = [s \in {} |-> NewPosition(s)]
    /\ logFile = EnsureLogHeader(NoFile)
    /\ nCalls = 0
    /\ nOk = 0
    /\ call = NoCall
    /\ pre = [cash |-> initial_cash, positions |-> [s \in {} |-> NewPosition(s)],
              logFile |-> NoFile]
    /\ ClientIdle
    /\ RaceIdle

\* One process_order call.  fed tells that the order is the one the preceding
\* check_stop_take returned; current_price is then the price of that check.
\* Of the order, the call record keeps the symbol, the side and whether the
\* quantity and the price are positive; an accepted order's quantity and price
\* are in the row it appends.
Apply(order, fed) ==
    LET r == ProcessOrderResult(cash, positions, logFile, order) IN
    /\ nCalls < MaxCalls
    /\ cash' = r.cash
    /\ positions' = r.positions
    /\ logFile' = r.logFile
    /\ nCalls' = nCalls + 1
    /\ nOk' = IF r.outcome = "ok" THEN nOk + 1 ELSE nOk
    /\ call' = [op |-> "process_order", symbol |-> order.symbol, side |-> order.side,
                valid_quantity |-> order.quantity > 0, valid_price |-> order.price > 0,
                current_price |-> IF fed THEN order.price ELSE 0,
                outcome |-> r.outcome, ret |-> None, fed |-> fed]
    /\ pre' = Snapshot
    /\ UNCHANGED initial_cash

\* process_order on an order the caller built.
ProcessOrder(order) == Apply(order, FALSE)

CheckStopTakeSetsDefault(symbol, current_price) ==
    /\ nCalls < MaxCalls
    /\ nCalls' = nCalls + 1
    /\ call' = [op |-> "check_stop_take", symbol |-> symbol, side |-> "-",
                valid_quantity |-> TRUE, valid_price |-> TRUE,
                current_price |-> current_price, outcome |-> "ok",
                ret |-> CheckStopTakeResult(positions, symbol, current_price),
                fed |-> FALSE]
    /\ pre' = Snapshot
    /\ positions' = SetDefault(positions, symbol)
    /\ UNCHANGED <<initial_cash, cash, logFile, nOk>>

CheckStopTake(symbol, current_price) ==
    /\ nCalls < MaxCalls
    /\ nCalls' = nCalls + 1
    /\ call' = [op |-> "check_stop_take", symbol |-> symbol, side |-> "-",
                valid_quantity |-> TRUE, valid_price |-> TRUE,
                current_price |-> current_price, outcome |-> "ok",
                ret |-> CheckStopTakeResult(positions, symbol, current_price),
                fed |-> FALSE]
    /\ pre' = Snapshot
    /\ UNCHANGED <<initial_cash, cash, positions, logFile, nOk>>

\* The caller feeds the order check_stop_take just returned into process_order.
ProcessReturned ==
    /\ call.op = "check_stop_take"
    /\ call.ret # None
    /\ Apply(Get(call.ret), TRUE)

Next ==
    \/ \E order \in Orders : ProcessOrder(order) /\ UNCHANGED <<clientVars, raceVars>>
    \/ \E symbol \in Symbols, current_price \in Prices :
          CheckStopTake(symbol, current_price) /\ UNCHANGED <<clientVars, raceVars>>
    \/ ProcessReturned /\ UNCHANGED <<clientVars, raceVars>>

Spec == Init /\ [][Next]_vars

\* ------------------------------------------------------------- properties

IsProcessOrder == call.op = "process_order"
IsCheck == call.op = "check_stop_take"
Accepted == IsProcessOrder /\ call.outcome = "ok"
Unchanged ==
    /\ cash = pre.cash
    /\ positions = pre.positions
    /\ logFile = pre.logFile

\* The data rows of the trade log: the rows after the header.
DataRows == SubSeq(logFile, 2, Len(logFile))
LastRow == logFile[Len(logFile)]

\* The position the last call found for its symbol: the entry of the map, or
\* the zero-quantity Position that setdefault creates.
Held == IF call.symbol \in DOMAIN pre.positions
        THEN pre.positions[call.symbol]
        ELSE NewPosition(call.symbol)

\* C1: after any sequence of process_order calls, accepted or rejected, the
\* ledger's cash is >= 0.
C1_CashNonNegative == cash >= 0

\* An accepted BUY that spent the whole balance.
C1_Witness == Accepted /\ call.side = "BUY" /\ cash = 0 /\ pre.cash > 0

\* C2: every Position the ledger holds has quantity >= 0, and a Position of
\* quantity 0 has average price 0 and neither stop-loss nor take-profit.
C2_PositionInvariant ==
    \A s \in DOMAIN positions :
        /\ positions[s].quantity >= 0
        /\ positions[s].quantity = 0 =>
              /\ positions[s].avg_price = Zero
              /\ positions[s].stop_loss = None
              /\ positions[s].take_profit = None

\* A position with a stop-loss sold out by an order that then fails the
\* stop/take cross-check: the map keeps it, with quantity 0.
C2_Witness ==
    /\ IsProcessOrder /\ call.outcome = "ErrStopTake" /\ call.side = "SELL"
    /\ call.symbol \in DOMAIN positions
    /\ positions[call.symbol].quantity = 0
    /\ Held.quantity > 0 /\ Held.stop_loss # None

\* C3: a process_order call rejected for insufficient funds or insufficient
\* position leaves cash, the positions map and the trade log as they were.
C3_RejectedChangesNothing ==
    (IsProcessOrder /\ call.outcome \in {"ErrFunds", "ErrPosition"}) => Unchanged

\* C4: a process_order call with quantity <= 0 or price <= 0 is rejected with the
\* invalid-order error and leaves cash, the positions map and the trade log as
\* they were.
C4_InvalidOrderRejected ==
    (IsProcessOrder /\ (~call.valid_quantity \/ ~call.valid_price)) =>
        /\ call.outcome \in {"ErrQuantity", "ErrPrice"}
        /\ Unchanged

\* A SELL with a non-positive price for a symbol the map does not hold.
C4_Witness ==
    /\ IsProcessOrder /\ call.side = "SELL"
    /\ call.valid_quantity /\ ~call.valid_price
    /\ call.symbol \notin DOMAIN pre.positions
    /\ nOk > 0

\* C5: the trade log is append-only with one row per success: a process_order
\* call that returns appends exactly one row, one that raises appends none,
\* check_stop_take appends none, no call changes a row already there, and the
\* number of data rows is the number of calls that returned without error.
C5_AppendOnlyLog ==
    /\ Len(DataRows) = nOk
    /\ Accepted =>
          /\ Len(logFile) = Len(pre.logFile) + 1
          /\ SubSeq(logFile, 1, Len(pre.logFile)) = pre.logFile
    /\ (IsProcessOrder /\ call.outcome # "ok") => logFile = pre.logFile
    /\ IsCheck => logFile = pre.logFile

\* The second accepted order of a run of three calls.
C5_Witness == Accepted /\ nOk = 2 /\ nCalls = 3

\* C6: an accepted BUY of q at p on a position of oldQty at oldAvg leaves
\* quantity oldQty + q, an average price with
\* avgPrice * (oldQty + q) = oldAvg * oldQty + p * q, and cash lower by q * p.
C6_WeightedAverage ==
    (Accepted /\ call.side = "BUY") =>
        LET q == LastRow.quantity
            p == LastRow.price
            now == positions[call.symbol]
        IN /\ now.quantity = Held.quantity + q
           /\ now.avg_price.n * (Held.quantity + q) * Held.avg_price.d
                = (Held.avg_price.n * Held.quantity + p * q * Held.avg_price.d)
                    * now.avg_price.d
           /\ cash = pre.cash - q * p

\* A BUY at a price other than the average of the units already held.
C6_Witness ==
    /\ Accepted /\ call.side = "BUY"
    /\ Held.quantity > 0
    /\ Held.avg_price # Rat(LastRow.price, 1)
    /\ positions[call.symbol].avg_price.d > 1

\* C7: on a fresh ledger with cash C, an accepted BUY of q at p without stop-loss
\* or take-profit followed by an accepted SELL of the same q at p2 leaves
\* cash = C - q*p + q*p2 and no entry for the symbol in the positions map.
RoundTripDone ==
    /\ nCalls = 2 /\ nOk = 2
    /\ DataRows[1].side = "BUY" /\ DataRows[2].side = "SELL"
    /\ DataRows[1].stop_loss = None /\ DataRows[1].take_profit = None
    /\ DataRows[1].symbol = DataRows[2].symbol
    /\ DataRows[1].quantity = DataRows[2].quantity

C7_RoundTrip ==
    RoundTripDone =>
        /\ cash = initial_cash - DataRows[1].quantity * DataRows[1].price
                               + DataRows[2].quantity * DataRows[2].price
        /\ DataRows[1].symbol \notin DOMAIN positions

\* A round trip that sells above the purchase price.
C7_Witness == RoundTripDone /\ DataRows[2].price > DataRows[1].price

\* C8: check_stop_take returns nothing when the symbol has no open position;
\* else, with a stop-loss set and current_price <= stop-loss, a SELL of the full
\* quantity at current_price carrying the stop-loss only; else, with a
\* take-profit set and current_price >= take-profit, the same carrying the
\* take-profit only; else nothing.
C8_CheckDecision ==
    IsCheck =>
        LET open == call.symbol \in DOMAIN pre.positions /\ Held.quantity > 0
            exit(sl, tp) ==
                Some([symbol |-> call.symbol, side |-> "SELL",
                      quantity |-> Held.quantity, price |-> call.current_price,
                      stop_loss |-> sl, take_profit |-> tp])
        IN IF ~open THEN call.ret = None
           ELSE IF Held.stop_loss # None /\ call.current_price <= Get(Held.stop_loss)
                THEN call.ret = exit(Held.stop_loss, None)
           ELSE IF Held.take_profit # None /\ call.current_price >= Get(Held.take_profit)
                THEN call.ret = exit(None, Held.take_profit)
           ELSE call.ret = None

\* A check at a price that is at or below the stop-loss and at or above the
\* take-profit at once.
C8_Witness ==
    /\ IsCheck /\ call.ret # None
    /\ Held.stop_loss # None /\ Held.take_profit # None
    /\ call.current_price <= Get(Held.stop_loss)
    /\ call.current_price >= Get(Held.take_profit)

\* C9: a check_stop_take call leaves cash, the positions map and the trade log
\* as they were, whether or not it returns an order.
C9_CheckChangesNothing == IsCheck => Unchanged

\* A check that returns an order, on a ledger that holds the symbol.
C9_Witness == IsCheck /\ call.ret # None /\ call.symbol \in DOMAIN positions

\* C10: feeding the order that check_stop_take returned at a current_price > 0
\* into process_order succeeds, raises cash by the open quantity times
\* current_price and leaves no entry for the symbol in the positions map.
C10_StopTriggerExit ==
    (IsProcessOrder /\ call.fed /\ call.current_price > 0) =>
        /\ call.outcome = "ok"
        /\ cash = pre.cash + Held.quantity * call.current_price
        /\ call.symbol \notin DOMAIN positions

\* The exit of a position whose stop-loss the price crossed.
C10_Witness ==
    /\ Accepted /\ call.fed
    /\ Held.quantity > 0 /\ Held.stop_loss # None
    /\ call.current_price > 0
    /\ call.current_price <= Get(Held.stop_loss)
    /\ cash > pre.cash

\* ================================================================ client
\* AlorClient (src/src/alor_client.py).

\* Frames the server delivers in one subscribe_quotes invocation.
MaxFrames == 4

\* subscribe_quotes' arguments.  A negative reconnect_attempts is an int the
\* signature accepts.
ReconnectAttempts == {-1, 0, 1, 2}
MaxMessages == Optional({1, 2})

\* The status of an unauthorized reply, in a frame and in an HTTP response.
Unauthorized == 401

\* What websocket.recv() returns: text that is not JSON, a JSON array, a JSON
\* scalar, a JSON object whose "status" is 401, or any other JSON object,
\* which carries a payload.
Payloads == {"p1", "p2"}
Frames ==
    {[json |-> "object", status |-> 0, payload |-> p] : p \in Payloads}
    \cup {[json |-> "object", status |-> Unauthorized, payload |-> NoPayload],
          [json |-> "invalid", status |-> 0, payload |-> NoPayload],
          [json |-> "array", status |-> 0, payload |-> NoPayload],
          [json |-> "scalar", status |-> 0, payload |-> NoPayload]}

\* Exceptions, by class.  ConnectionClosedError is a WebSocketException;
\* OSError stands for what the network stack raises outside the websockets
\* hierarchy and ValueError for any other error of a callback.
TransportErrors == {"ConnectionClosedError", "WebSocketException", "OSError"}
CallbackErrors ==
    {"AlorAuthError", "AlorConnectionError", "WebSocketException", "ValueError"}

ParseWsMessageDropsInvalid(frame) ==
    IF frame.json = "invalid" THEN "WebSocketException"
    ELSE IF frame.json = "object" /\ frame.status = Unauthorized THEN "AlorAuthError"
    ELSE IF frame.json # "object" THEN "AlorAPIError"
    ELSE "none"

\* _parse_ws_message: the exception it raises, or "none".
ParseWsMessage(frame) ==
    IF frame.json = "invalid" THEN "AlorAPIError"
    ELSE IF frame.json = "object" /\ frame.status = Unauthorized THEN "AlorAuthError"
    ELSE IF frame.json # "object" THEN "AlorAPIError"
    ELSE "none"

\* The except clause of subscribe_quotes that catches exc.
ExceptClauseRetriesAll(exc) ==
    IF exc = "AlorAPIError" THEN "wrap" ELSE "reconnect"

ExceptClause(exc) ==
    IF exc \in {"ConnectionClosedError", "WebSocketException"} THEN "reconnect"
    ELSE IF exc = "AlorAuthError" THEN "reraise"
    ELSE "wrap"

\* attempts > reconnect_attempts, after the increment.
ExhaustedOneLate(a, r) == a > r + 1
Exhausted(a, r) == a > r

\* max_messages is not None and received >= max_messages.
ReachedMaxStrict(n, m) == m # None /\ n > Get(m)
ReachedMax(n, m) == m # None /\ n >= Get(m)

\* The locals after exc was raised inside the try block.
OnException(s, exc) ==
    LET clause == ExceptClause(exc) IN
    IF clause = "reconnect"
    THEN LET a == s.attempts + 1 IN
         IF Exhausted(a, reconnect_attempts)
         THEN [s EXCEPT !.attempts = a, !.pc = "done", !.result = "AlorConnectionError"]
         ELSE [s EXCEPT !.attempts = a, !.pc = "sleep"]
    ELSE IF clause = "reraise"
    THEN [s EXCEPT !.pc = "done", !.result = exc]
    ELSE [s EXCEPT !.pc = "done", !.result = "AlorAPIError"]

\* One step of subscribe_quotes: the locals become s, the record of what
\* happened o.  A position of "recv" is websocket.recv() called and awaited:
\* the connection is then one on which a receive was attempted.
Step(s, o, step, outcome) ==
    /\ sq' = s
    /\ obs' = [o EXCEPT !.ev = [step |-> step, outcome |-> outcome],
                        !.recv_on = IF s.pc = "recv" THEN @ \cup {o.connects} ELSE @,
                        !.prev = Counters(sq, obs)]
    /\ UNCHANGED <<reconnect_attempts, max_messages, rest, ledgerVars, raceVars>>

\* The call: attempts = 0, subscriptions_sent = False.  coroutine tells what
\* asyncio.iscoroutinefunction(callback) is: TRUE for an async def callback.
Subscribe(coroutine) ==
    /\ sq.pc = "idle"
    /\ Step([sq EXCEPT !.pc = "loop", !.coroutine = coroutine], obs, "subscribe", "ok")

\* while attempts <= reconnect_attempts; falling out of the loop returns None.
While ==
    /\ sq.pc = "loop"
    /\ IF sq.attempts <= reconnect_attempts
       THEN Step([sq EXCEPT !.pc = "connect"], obs, "while", "enter")
       ELSE Step([sq EXCEPT !.pc = "done", !.result = "returned"], obs, "while", "exit")

\* async with self._connect_ws() as websocket.
Connect(outcome) ==
    /\ sq.pc = "connect"
    /\ LET o == [obs EXCEPT !.connect_calls = @ + 1] IN
       IF outcome = "ok"
       THEN Step([sq EXCEPT !.pc = "send"], [o EXCEPT !.connects = @ + 1], "connect", "ok")
       ELSE Step(OnException(sq, outcome), o, "connect", outcome)

\* _send_subscription, then subscriptions_sent = True, received = 0 and the
\* first websocket.recv() call.
SendResendsOnlyOnce(outcome) ==
    /\ sq.pc = "send"
    /\ IF outcome = "ok"
       THEN Step([sq EXCEPT !.subscriptions_sent = TRUE, !.received = 0, !.pc = "recv"],
                 [obs EXCEPT !.subscribe_frames =
                                 IF sq.subscriptions_sent THEN @ ELSE @ + 1],
                 "send", "ok")
       ELSE Step(OnException(sq, outcome), obs, "send", outcome)

SendSubscription(outcome) ==
    /\ sq.pc = "send"
    /\ IF outcome = "ok"
       THEN Step([sq EXCEPT !.subscriptions_sent = TRUE, !.received = 0, !.pc = "recv"],
                 [obs EXCEPT !.subscribe_frames = @ + 1], "send", "ok")
       ELSE Step(OnException(sq, outcome), obs, "send", outcome)

\* What a frame is: an object reporting status 401, any other object, or
\* something that is not a JSON object.
FrameLabel(frame) ==
    IF frame.json # "object" THEN "malformed"
    ELSE IF frame.status = Unauthorized THEN "unauthorized"
    ELSE "object"

RecvFrameBeforeDispatch(frame) ==
    /\ sq.pc = "recv"
    /\ obs.frames < MaxFrames
    /\ LET exc == ParseWsMessage(frame)
           o == [obs EXCEPT !.frames = @ + 1]
       IN IF exc = "none"
          THEN Step([sq EXCEPT !.pc = IF sq.payload = NoPayload THEN "recv" ELSE "dispatch",
                               !.payload = frame.payload],
                    [o EXCEPT !.parsed = Append(@, frame.payload)],
                    "frame", FrameLabel(frame))
          ELSE Step(OnException(sq, exc), o, "frame", FrameLabel(frame))

\* websocket.recv() returns a frame, which _parse_ws_message parses.
RecvFrame(frame) ==
    /\ sq.pc = "recv"
    /\ obs.frames < MaxFrames
    /\ LET exc == ParseWsMessage(frame)
           o == [obs EXCEPT !.frames = @ + 1]
       IN IF exc = "none"
          THEN Step([sq EXCEPT !.pc = "dispatch", !.payload = frame.payload],
                    [o EXCEPT !.parsed = Append(@, frame.payload)],
                    "frame", FrameLabel(frame))
          ELSE Step(OnException(sq, exc), o, "frame", FrameLabel(frame))

\* websocket.recv() raises.
RecvFails(exc) ==
    /\ sq.pc = "recv"
    /\ Step(OnException(sq, exc), obs, "recv", exc)

\* _dispatch_callback returns, after await callback(payload) when coroutine
\* and after callback(payload) otherwise: received += 1 and the max_messages
\* test.
Dispatch ==
    /\ sq.pc = "dispatch"
    /\ LET n == sq.received + 1
           o == [obs EXCEPT !.callbacks = @ + 1,
                            !.dispatched = Append(@, sq.payload),
                            !.passed = Append(@, sq.payload)]
       IN IF ReachedMax(n, max_messages)
          THEN Step([sq EXCEPT !.received = n, !.payload = NoPayload, !.pc = "done",
                               !.result = "returned"], o, "dispatch", "return")
          ELSE Step([sq EXCEPT !.received = n, !.payload = NoPayload, !.pc = "recv"],
                    o, "dispatch", "ok")

\* The callback, called or awaited with the payload, raises.
CallbackRaises(exc) ==
    /\ sq.pc = "dispatch"
    /\ Step(OnException([sq EXCEPT !.payload = NoPayload], exc),
            [obs EXCEPT !.callbacks = @ + 1, !.passed = Append(@, sq.payload)],
            "callback", exc)

SleepNeverWakes ==
    /\ sq.pc = "sleep"
    /\ Step(sq, obs, "sleep", "ok")

\* await asyncio.sleep(reconnect_delay), then the loop again.
Sleep ==
    /\ sq.pc = "sleep"
    /\ Step([sq EXCEPT !.pc = "loop"], [obs EXCEPT !.sleeps = @ + 1], "sleep", "ok")

\* ------------------------------------------------------------------ REST

\* What session.get produces: a RequestException, or a response with a status
\* code and a body.  The body is text that is not JSON, or JSON: null, a scalar,
\* an array, or an object whose "candles" key is absent, null or an array.
StatusCodes == {200, 401, 404, 500}
CandleLists == {<<>>, <<"c1">>, <<"c1", "c2">>}
NoCandles == [tag |-> "absent", items |-> <<>>]
Bodies ==
    {[json |-> j, items |-> <<>>, candles |-> NoCandles] : j \in {"invalid", "null", "scalar"}}
    \cup {[json |-> "array", items |-> l, candles |-> NoCandles] : l \in CandleLists}
    \cup {[json |-> "object", items |-> <<>>, candles |-> c] :
            c \in {NoCandles, [tag |-> "null", items |-> <<>>]}
                  \cup {[tag |-> "list", items |-> l] : l \in CandleLists}}
NoBody == [json |-> "invalid", items |-> <<>>, candles |-> NoCandles]
Responses ==
    {[network |-> "RequestException", status_code |-> 0, body |-> NoBody]}
    \cup {[network |-> "ok", status_code |-> c, body |-> b] : c \in StatusCodes, b \in Bodies}

\* requests' Response.ok.
Ok(response) == response.status_code < 400

\* _safe_get: the exception it raises, or "none".
SafeGetOkFirst(response) ==
    IF response.network # "ok" THEN "AlorConnectionError"
    ELSE IF ~Ok(response) THEN "AlorAPIError"
    ELSE IF response.status_code = Unauthorized THEN "AlorAuthError"
    ELSE "none"

SafeGet(response) ==
    IF response.network # "ok" THEN "AlorConnectionError"
    ELSE IF response.status_code = Unauthorized THEN "AlorAuthError"
    ELSE IF ~Ok(response) THEN "AlorAPIError"
    ELSE "none"

\* _safe_json: the exception it raises, or "none".
SafeJson(response) ==
    IF response.body.json = "invalid" THEN "AlorAPIError" ELSE "none"

\* A returned value: None, a scalar, a list or a dict.
Value(tag, items) == [tag |-> tag, items |-> items]
NoValue == Value("none", <<>>)
Data(body) ==
    IF body.json = "null" THEN NoValue
    ELSE IF body.json = "array" THEN Value("list", body.items)
    ELSE IF body.json = "scalar" THEN Value("scalar", <<>>)
    ELSE Value("dict", body.candles.items)

\* data.get("candles") if isinstance(data, dict) else data
Candles(body) ==
    IF body.json = "object"
    THEN IF body.candles.tag = "list" THEN Value("list", body.candles.items) ELSE NoValue
    ELSE Data(body)

Outcome(raised, ret) == [raised |-> raised, ret |-> ret]

\* get_historical_candles on the response its one request got.
GetHistoricalCandles(response) ==
    IF SafeGet(response) # "none" THEN Outcome(SafeGet(response), NoValue)
    ELSE IF SafeJson(response) # "none" THEN Outcome(SafeJson(response), NoValue)
    ELSE IF Candles(response.body) = NoValue THEN Outcome("AlorAPIError", NoValue)
    ELSE Outcome("none", Candles(response.body))

\* get_order_book on the response its one request got.
GetOrderBook(response) ==
    IF SafeGet(response) # "none" THEN Outcome(SafeGet(response), NoValue)
    ELSE IF SafeJson(response) # "none" THEN Outcome(SafeJson(response), NoValue)
    ELSE Outcome("none", Data(response.body))

\* One REST query: one session.get, whose response decides the outcome.
Query(op, response) ==
    LET r == IF op = "get_historical_candles" THEN GetHistoricalCandles(response)
             ELSE GetOrderBook(response)
    IN /\ sq.pc = "idle"
       /\ rest' = [op |-> op, response |-> response, requests |-> 1,
                   raised |-> r.raised, ret |-> r.ret]
       /\ UNCHANGED <<reconnect_attempts, max_messages, sq, obs, ledgerVars, raceVars>>

\* ------------------------------------------------- client specification

\* A ledger on which nothing is called.
LedgerIdle ==
    /\ initial_cash \in InitialCashes
    /\ cash = initial_cash
    /\ positions = [s \in {} |-> NewPosition(s)]
    /\ logFile = EnsureLogHeader(NoFile)
    /\ nCalls = 0
    /\ nOk = 0
    /\ call = NoCall
    /\ pre = [cash |-> initial_cash, positions |-> [s \in {} |-> NewPosition(s)],
              logFile |-> NoFile]
    /\ RaceIdle

\* An AlorClient and the arguments of the subscription it will be asked for.
ClientInit ==
    /\ LedgerIdle
    /\ reconnect_attempts \in ReconnectAttempts
    /\ max_messages \in MaxMessages
    /\ sq = SqIdle
    /\ obs = ObsIdle
    /\ rest = RestIdle

\* A run makes REST queries or one subscribe_quotes call.
ClientNext ==
    \/ \E op \in {"get_historical_candles", "get_order_book"}, response \in Responses :
          Query(op, response)
    \/ \E coroutine \in BOOLEAN : rest = RestIdle /\ Subscribe(coroutine)
    \/ While
    \/ \E outcome \in {"ok"} \cup TransportErrors : Connect(outcome)
    \/ \E outcome \in {"ok"} \cup TransportErrors : SendSubscription(outcome)
    \/ \E frame \in Frames : RecvFrame(frame)
    \/ \E exc \in TransportErrors : RecvFails(exc)
    \/ Dispatch
    \/ \E exc \in CallbackErrors : CallbackRaises(exc)
    \/ Sleep

ClientSpec == ClientInit /\ [][ClientNext]_vars

\* The steps of a call that has begun, by what it waits for.  The loop test,
\* websockets.connect (which gives up after its open timeout) and the send of
\* the subscription frame go on by themselves; a receive ends with a frame or
\* with an exception (the keepalive of ping_interval and ping_timeout closes a
\* silent connection); a callback returns or raises; a sleep ends.
Connecting ==
    \/ While
    \/ \E outcome \in {"ok"} \cup TransportErrors : Connect(outcome)
    \/ \E outcome \in {"ok"} \cup TransportErrors : SendSubscription(outcome)
Receiving ==
    \/ \E frame \in Frames : RecvFrame(frame)
    \/ \E exc \in TransportErrors : RecvFails(exc)
Dispatching ==
    \/ Dispatch
    \/ \E exc \in CallbackErrors : CallbackRaises(exc)

\* The client with every step of a call that has begun eventually taken.
ClientFairSpec ==
    /\ ClientInit
    /\ [][ClientNext]_vars
    /\ WF_vars(Connecting)
    /\ WF_vars(Receiving)
    /\ WF_vars(Dispatching)
    /\ WF_vars(Sleep)

\* ------------------------------------------------------ client properties

Errors == {"AlorAuthError", "AlorConnectionError", "AlorAPIError"}
Returned == sq.pc = "done" /\ sq.result = "returned"
Raised(exc) == sq.pc = "done" /\ sq.result = exc
Dispatched == Len(obs.dispatched)

\* The last step left the attempt counter, the sleeps and the connections as
\* it found them.
NoRetry ==
    /\ sq.attempts = obs.prev.attempts
    /\ obs.sleeps = obs.prev.sleeps
    /\ obs.connect_calls = obs.prev.connect_calls
    /\ obs.connects = obs.prev.connects

\* A connection was opened and nothing has failed so far: every exception
\* either increments attempts or ends the call with an error.
Clean == obs.connects >= 1 /\ sq.attempts = 0 /\ sq.result \notin Errors

\* C11: with max_messages = N >= 1 and a connection that delivers well-formed
\* object frames without any failure, exactly N messages reach the callback and
\* the call then returns: no frame is received beyond the N-th, one connection
\* was opened, attempts is still 0 and no reconnect sleep was taken.
C11_StreamingTermination ==
    (max_messages # None /\ Clean) =>
        /\ obs.connect_calls = 1
        /\ obs.connects = 1
        /\ obs.sleeps = 0
        /\ obs.frames <= Get(max_messages)
        /\ Dispatched <= Get(max_messages)
        /\ Dispatched = Get(max_messages) <=> Returned
        /\ Returned => obs.callbacks = Get(max_messages)

C11_Witness ==
    /\ max_messages = Some(2)
    /\ Clean
    /\ Returned
    /\ Dispatched = 2
    /\ obs.frames = 2

\* C12: a frame reporting status 401 ends subscribe_quotes with AlorAuthError
\* at once, whatever reconnect_attempts is: the callback is not invoked for the
\* frame, attempts is not incremented, no sleep is taken and no connection is
\* opened, then or later.  A REST query answered with HTTP 401 raises
\* AlorAuthError after exactly one request.
C12_AuthShortCircuit ==
    /\ (obs.ev = [step |-> "frame", outcome |-> "unauthorized"]) =>
            /\ Raised("AlorAuthError")
            /\ obs.callbacks = obs.prev.callbacks
            /\ Dispatched = obs.prev.dispatched
            /\ NoRetry
    /\ (sq.pc = "done") =>
            /\ ~ENABLED Sleep
            /\ ~ENABLED Connect("ok")
            /\ ~ENABLED While
    /\ (rest.op # "none" /\ rest.response.network = "ok"
            /\ rest.response.status_code = Unauthorized) =>
            /\ rest.raised = "AlorAuthError"
            /\ rest.requests = 1

C12_Witness ==
    /\ obs.ev = [step |-> "frame", outcome |-> "unauthorized"]
    /\ reconnect_attempts = 2
    /\ Dispatched = 1
    /\ Raised("AlorAuthError")

C12_RestWitness ==
    /\ rest.op = "get_order_book"
    /\ rest.response.status_code = Unauthorized
    /\ rest.raised = "AlorAuthError"

\* The last step raised an exception that the reconnect clause (line 173)
\* catches.
Failed == obs.ev.outcome \in {"ConnectionClosedError", "WebSocketException"}

C14_TotalAtMostMax ==
    (max_messages # None) =>
        /\ Dispatched <= Get(max_messages)
        /\ Dispatched = Get(max_messages) => Returned

\* C15: an AlorAuthError or AlorConnectionError raised by the callback comes
\* out of subscribe_quotes as it is, any other error of the callback comes out
\* as AlorAPIError, and in neither case is there a retry or a sleep.
C15_CallbackErrorClass ==
    (obs.ev.step = "callback") =>
        /\ Raised(IF obs.ev.outcome \in {"AlorAuthError", "AlorConnectionError"}
                  THEN obs.ev.outcome ELSE "AlorAPIError")
        /\ NoRetry

\* C16: on every opened connection one QuotesSubscribe frame is sent, before
\* the first receive (none if the send itself raises, and then nothing is
\* received on that connection); at every point the frames sent are as many as
\* the connections on which a receive was attempted, and a reconnect sends a
\* new frame.
C16_OneFramePerConnection ==
    /\ obs.subscribe_frames = Cardinality(obs.recv_on)
    /\ obs.recv_on \subseteq 1..obs.connects
    /\ (sq.pc = "send") => obs.connects \notin obs.recv_on
    /\ (sq.pc \in {"recv", "dispatch"}) => obs.connects \in obs.recv_on
    /\ (obs.ev = [step |-> "send", outcome |-> "ok"]) =>
          /\ sq.pc = "recv"
          /\ obs.subscribe_frames = Cardinality(obs.recv_on \ {obs.connects}) + 1

C16_Witness ==
    /\ sq.pc = "recv"
    /\ sq.attempts = 1
    /\ obs.connects = 2
    /\ obs.subscribe_frames = 2
    /\ Dispatched = 1

\* C17: whatever reconnect_attempts and max_messages are, subscribe_quotes
\* returns normally only when max_messages is set and that many messages were
\* dispatched; every other ending raises AlorAuthError, AlorConnectionError or
\* AlorAPIError.
C17_NoSilentSuccess ==
    /\ (sq.pc = "done") => sq.result \in {"returned"} \cup Errors
    /\ Returned => max_messages # None /\ Dispatched >= Get(max_messages)

\* The last REST query was get_historical_candles.
IsCandleQuery == rest.op = "get_historical_candles"

\* The JSON body is an object that has the "candles" key.
HasCandleField(body) == body.json = "object" /\ body.candles.tag # "absent"

EarlierRow == TradeRow([symbol |-> "SBER", side |-> "BUY", quantity |-> 1, price |-> 1],
                       NewPosition("SBER"), 2)
InitialFiles == {NoFile, <<>>, <<HeaderRow>>, <<HeaderRow, EarlierRow>>}

ConstructCall ==
    [op |-> "construct", symbol |-> NoSymbol, side |-> "-", valid_quantity |-> TRUE,
     valid_price |-> TRUE, current_price |-> 0, outcome |-> "ok", ret |-> None,
     fed |-> FALSE]

\* The first PaperTrader.__init__ of the run.
LogInit ==
    /\ initial_cash \in InitialCashes
    /\ cash = initial_cash
    /\ positions = [s \in {} |-> NewPosition(s)]
    /\ \E file \in InitialFiles :
          /\ logFile = EnsureLogHeader(file)
          /\ pre = [cash |-> initial_cash, positions |-> [s \in {} |-> NewPosition(s)],
                    logFile |-> file]
    /\ nCalls = 0
    /\ nOk = 0
    /\ call = ConstructCall
    /\ ClientIdle
    /\ RaceIdle

\* A further PaperTrader.__init__ on the same path: a new ledger, the same file.
Construct ==
    /\ nCalls < MaxCalls
    /\ cash' = initial_cash
    /\ positions' = [s \in {} |-> NewPosition(s)]
    /\ logFile' = EnsureLogHeader(logFile)
    /\ nCalls' = nCalls + 1
    /\ call' = ConstructCall
    /\ pre' = Snapshot
    /\ UNCHANGED <<initial_cash, nOk, clientVars, raceVars>>

LogNext ==
    \/ Construct
    \/ \E order \in Orders : ProcessOrder(order) /\ UNCHANGED <<clientVars, raceVars>>

LogSpec == LogInit /\ [][LogNext]_vars

\* C18: however many times PaperTrader is constructed on one log path, between
\* any process_order calls, and whether the file was absent or there before
\* the first construction, the first row of the log is the header and the
\* header occurs exactly once; a construction on an existing file leaves the
\* file as it was.
C18_HeaderOnce ==
    /\ Len(logFile) >= 1
    /\ logFile[1].kind = "header"
    /\ Cardinality({i \in 1..Len(logFile) : logFile[i].kind = "header"}) = 1
    /\ (call.op = "construct" /\ pre.logFile # NoFile) => logFile = pre.logFile

\* ====================================================== concurrent ledger
\* Two threads each call process_order once on one PaperTrader, with nothing
\* serializing them.  An invocation takes three steps: the checks up to the
\* funds or position test (lines 79-94), the fill (lines 90-91 or 95-96), and
\* the rest (lines 100-116: cross-check, stop/take, log row, pop).

\* The ledger the threads find: a new one, or one on which one order without
\* stop-loss and take-profit was processed.
SeedOrders == {o \in Orders : o.stop_loss = None /\ o.take_profit = None}

Quantity(ps, symbol) == IF symbol \in DOMAIN ps THEN ps[symbol].quantity ELSE 0

RaceInit ==
    /\ initial_cash \in InitialCashes
    /\ \E seed \in Optional(SeedOrders) :
          LET new == Result(initial_cash, [s \in {} |-> NewPosition(s)],
                            EnsureLogHeader(NoFile), "ok")
              r == IF seed = None THEN new
                   ELSE ProcessOrderResult(new.cash, new.positions, new.logFile, Get(seed))
          IN /\ cash = r.cash
             /\ positions = r.positions
             /\ logFile = r.logFile
             /\ race = [overlap |-> FALSE, last |-> "-",
                        net |-> [s \in Symbols |-> Quantity(r.positions, s)]]
    /\ threads = [t \in Threads |-> IdleThread]
    /\ nCalls = 0
    /\ nOk = 0
    /\ call = NoCall
    /\ pre = [cash |-> initial_cash, positions |-> [s \in {} |-> NewPosition(s)],
              logFile |-> NoFile]
    /\ ClientIdle

\* The Position object a thread's local variable position refers to: the
\* entry of the map, or an object another thread's pop removed from the map.
Obj(t) ==
    IF threads[t].attached THEN positions[threads[t].order.symbol] ELSE threads[t].own

InFlight(t) == threads[t].pc \in {"validated", "mutated"}

Raise(t, outcome) ==
    [threads EXCEPT ![t] = [IdleThread EXCEPT !.pc = "raised", !.outcome = outcome]]

\* Lines 79-94 without the fill: the raises for quantity, price, funds and
\* position, with setdefault before the last two.
Validate(t, order) ==
    /\ threads[t].pc = "idle"
    /\ race' = [race EXCEPT !.overlap = @ \/ \E u \in Threads \ {t} : InFlight(u),
                            !.last = t]
    /\ UNCHANGED <<initial_cash, cash, logFile, nCalls, nOk, call, pre, clientVars>>
    /\ IF InvalidQuantity(order)
       THEN threads' = Raise(t, "ErrQuantity") /\ UNCHANGED positions
       ELSE IF InvalidPrice(order)
       THEN threads' = Raise(t, "ErrPrice") /\ UNCHANGED positions
       ELSE
         LET ps1 == SetDefault(positions, order.symbol)
             position == ps1[order.symbol]
             outcome ==
                 IF order.side = "BUY"
                 THEN IF InsufficientFunds(order.quantity * order.price, cash)
                      THEN "ErrFunds" ELSE "ok"
                 ELSE IF order.side = "SELL"
                 THEN IF InsufficientPosition(position, order)
                      THEN "ErrPosition" ELSE "ok"
                 ELSE "ErrSide"
         IN /\ positions' = ps1
            /\ threads' =
                 IF outcome # "ok" THEN Raise(t, outcome)
                 ELSE [threads EXCEPT ![t] =
                         [pc |-> "validated", order |-> order, attached |-> TRUE,
                          own |-> NewPosition(NoSymbol), outcome |-> "none",
                          start |-> Snapshot]]

\* self.cash -= cost, or self.cash += quantity * price.
CashAfterSellDebits(c, order) == c - order.quantity * order.price

CashAfter(c, order) ==
    IF order.side = "BUY" THEN c - order.quantity * order.price
    ELSE c + order.quantity * order.price

\* Lines 90-91 or 95-96: the cash and position.update.
Mutate(t) ==
    LET order == threads[t].order
        position == PositionUpdate(Obj(t), order.side, order.quantity, order.price)
    IN /\ threads[t].pc = "validated"
       /\ cash' = CashAfter(cash, order)
       /\ IF threads[t].attached
          THEN /\ positions' = [positions EXCEPT ![order.symbol] = position]
               /\ threads' = [threads EXCEPT ![t].pc = "mutated"]
          ELSE /\ UNCHANGED positions
               /\ threads' = [threads EXCEPT ![t].pc = "mutated", ![t].own = position]
       /\ race' = [race EXCEPT !.last = t,
                               !.net[order.symbol] =
                                   IF order.side = "BUY" THEN @ + order.quantity
                                   ELSE @ - order.quantity]
       /\ UNCHANGED <<initial_cash, logFile, nCalls, nOk, call, pre, clientVars>>

\* Lines 100-116: the cross-check, the stop/take update, the log row and the
\* pop.  A pop takes the object out of the map; a thread still holding it
\* goes on with the object, which the map no longer has.
Finish(t) ==
    LET order == threads[t].order
        symbol == order.symbol
        p2 == SetStopTake(Obj(t), order)
    IN /\ threads[t].pc = "mutated"
       /\ race' = [race EXCEPT !.last = t]
       /\ UNCHANGED <<initial_cash, cash, nCalls, nOk, call, pre, clientVars>>
       /\ IF StopNotBelowTake(order)
          THEN /\ threads' = [threads EXCEPT ![t].pc = "raised",
                                             ![t].outcome = "ErrStopTake"]
               /\ UNCHANGED <<positions, logFile>>
          ELSE /\ logFile' = LogTrade(logFile, order, p2, cash)
               /\ LET written == IF threads[t].attached
                                 THEN [positions EXCEPT ![symbol] = p2]
                                 ELSE positions
                      popped == p2.quantity = 0 /\ symbol \in DOMAIN positions
                  IN /\ positions' = IF popped THEN Pop(written, symbol) ELSE written
                     /\ threads' =
                          [u \in Threads |->
                             IF u = t
                             THEN [threads[t] EXCEPT
                                     !.pc = "done", !.outcome = "ok",
                                     !.own = IF threads[t].attached THEN @ ELSE p2]
                             ELSE IF popped /\ InFlight(u) /\ threads[u].attached
                                     /\ threads[u].order.symbol = symbol
                             THEN [threads[u] EXCEPT !.attached = FALSE,
                                                     !.own = written[symbol]]
                             ELSE threads[u]]

RaceNext ==
    \/ \E t \in Threads, order \in Orders : Validate(t, order)
    \/ \E t \in Threads : Mutate(t)
    \/ \E t \in Threads : Finish(t)

RaceSpec == RaceInit /\ [][RaceNext]_vars

\* The funds invariant or the position invariant is broken: the cash is
\* negative, or more units of a symbol were sold than were held.
Broken == cash < 0 \/ \E s \in Symbols : race.net[s] < 0

\* The thread that stepped last has ended its invocation after the checks
\* of its first step.
LastEnded ==
    /\ race.last \in Threads
    /\ threads[race.last].pc \in {"done", "raised"}
    /\ threads[race.last].order # NoOrder

\* The ledger is as process_order, taken as one step, leaves the ledger that
\* the last thread found.
AsOneCall ==
    LET th == threads[race.last]
        r == ProcessOrderResult(th.start.cash, th.start.positions, th.start.logFile,
                                th.order)
    IN /\ cash = r.cash
       /\ positions = r.positions
       /\ logFile = r.logFile
       /\ th.outcome = r.outcome

\* C20: two process_order invocations on one ledger, interleaved between
\* their validate, mutate and log steps, can reach a state that breaks the
\* funds or position invariant (the witness: two BUYs that both pass the cost
\* check before either subtracts leave cash < 0); invocations that do not
\* overlap never do, and each leaves the ledger as a single call would.
C20_SerializedSafe ==
    (~race.overlap) =>
        /\ ~Broken
        /\ \A s \in Symbols : Quantity(positions, s) = race.net[s]
        /\ LastEnded => AsOneCall

C20_Witness ==
    /\ race.overlap
    /\ cash < 0
    /\ \A t \in Threads : threads[t].pc = "done" /\ threads[t].order.side = "BUY"

C20_OversoldWitness ==
    /\ race.overlap
    /\ \E s \in Symbols : race.net[s] < 0
    /\ \A t \in Threads : threads[t].pc = "done" /\ threads[t].order.side = "SELL"

\* ================================================================ report
\* generate_report (src/src/reporting.py) over a trade log.

\* Data rows of a log handed to generate_report.
MaxRows == 3

\* The initial_cash argument; 0 is the invalid one, 1000 the tests' value.
ReportCashes == {0, 1, 2, 3, 1000}

\* The cash field of a data row: a number, or text that float() rejects.
CashValues == {0, 1, 2, 3}
CashFields == {[numeric |-> TRUE, value |-> c] : c \in CashValues}
              \cup {[numeric |-> FALSE, value |-> 0]}

\* A data row with the given cash field.
CashRow(field) ==
    IF field.numeric
    THEN TradeRow([symbol |-> "SBER", side |-> "BUY", quantity |-> 1, price |-> 1],
                  NewPosition("SBER"), field.value)
    ELSE [kind |-> "other"]

\* The log PaperTrader(1000) leaves after BUY 5 @100 and SELL 5 @80.
LossScenarioLog ==
    LET buy == [symbol |-> "SBER", side |-> "BUY", quantity |-> 5, price |-> 100,
                stop_loss |-> None, take_profit |-> None]
        sell == [buy EXCEPT !.side = "SELL", !.price = 80]
        r1 == ProcessOrderResult(1000, [s \in {} |-> NewPosition(s)],
                                 EnsureLogHeader(NoFile), buy)
        r2 == ProcessOrderResult(r1.cash, r1.positions, r1.logFile, sell)
    IN r2.logFile

\* The files generate_report may find: none, an empty one, and logs of up to
\* MaxRows data rows with or without the header row.
ReportFiles ==
    LET rows == UNION {[1..n -> CashFields] : n \in 0..MaxRows}
        data == {[i \in 1..Len(fs) |-> CashRow(fs[i])] : fs \in rows}
    IN {NoFile, LossScenarioLog, Tail(LossScenarioLog)}
       \cup {<<HeaderRow>> \o d : d \in data}
       \cup data

\* csv.DictReader: the first row names the columns, the others are the rows
\* read; row["cash"] is there when the first row is the header.
RECURSIVE CashColumn(_, _)
CashColumn(file, i) ==
    IF i > Len(file) THEN <<>>
    ELSE IF file[1].kind = "header" /\ file[i].kind = "trade"
    THEN <<file[i].cash>> \o CashColumn(file, i + 1)
    ELSE CashColumn(file, i + 1)

\* _read_cash_series
ReadCashSeries(file, cash0) ==
    IF file = NoFile THEN <<cash0>>
    ELSE <<cash0>> \o CashColumn(file, 2)

\* a > b for numbers n/d with d > 0.
Greater(a, b) == a.n * b.d > b.n * a.d

\* _calculate_max_drawdown from position i on, with peak and max_drawdown as
\* the loop holds them.
RECURSIVE DrawdownLoop(_, _, _, _)
DrawdownLoop(values, i, peak, max_drawdown) ==
    IF i > Len(values) THEN max_drawdown
    ELSE LET peak2 == IF values[i] > peak THEN values[i] ELSE peak
             drawdown == Rat((peak2 - values[i]) * 100, peak2)
         IN DrawdownLoop(values, i + 1, peak2,
                IF peak2 > 0 /\ Greater(drawdown, max_drawdown)
                THEN drawdown ELSE max_drawdown)

CalculateMaxDrawdown(values) ==
    IF Len(values) = 0 THEN Zero ELSE DrawdownLoop(values, 2, values[1], Zero)

\* generate_report: the TradingReport, or the ValueError of line 60.
GenerateReportResult(cash0, file) ==
    IF cash0 <= 0 THEN [outcome |-> "ErrInitialCash", report |-> None]
    ELSE LET cash_series == ReadCashSeries(file, cash0)
             final_balance == cash_series[Len(cash_series)]
             pnl == final_balance - cash0
         IN [outcome |-> "ok",
             report |-> Some([final_balance |-> final_balance,
                              pnl |-> pnl,
                              return_pct |-> Rat(pnl * 100, cash0),
                              max_drawdown_pct |-> CalculateMaxDrawdown(cash_series)])]

\* A log file and the initial_cash the caller will pass.
ReportInit ==
    /\ initial_cash \in ReportCashes
    /\ logFile \in ReportFiles
    /\ cash = initial_cash
    /\ positions = [s \in {} |-> NewPosition(s)]
    /\ nCalls = 0
    /\ nOk = 0
    /\ call = NoCall
    /\ pre = [cash |-> initial_cash, positions |-> [s \in {} |-> NewPosition(s)],
              logFile |-> logFile]
    /\ ClientIdle
    /\ RaceIdle

\* One generate_report(initial_cash, path) call.
GenerateReport ==
    LET r == GenerateReportResult(initial_cash, logFile) IN
    /\ call.op # "generate_report"
    /\ call' = [NoCall EXCEPT !.op = "generate_report", !.outcome = r.outcome,
                              !.ret = r.report]
    /\ nCalls' = nCalls + 1
    /\ UNCHANGED <<initial_cash, cash, positions, logFile, nOk, pre, clientVars, raceVars>>

ReportNext == GenerateReport

ReportSpec == ReportInit /\ [][ReportNext]_vars

\* ------------------------------------------------------ report properties

IsReport == call.op = "generate_report" /\ call.outcome = "ok"

\* The log is absent or starts with the header row.
HeaderFirst == logFile = NoFile \/ (Len(logFile) >= 1 /\ logFile[1].kind = "header")

\* initial_cash followed by the cash of every trade row of the log, in order.
RowsWithCash ==
    IF logFile = NoFile THEN {}
    ELSE {i \in 1..Len(logFile) : logFile[i].kind = "trade"}
CashSeries ==
    LET n == Cardinality(RowsWithCash)
        Row(k) == CHOOSE i \in RowsWithCash :
                     Cardinality({j \in RowsWithCash : j < i}) = k - 1
    IN [k \in 1..(n + 1) |-> IF k = 1 THEN initial_cash ELSE logFile[Row(k - 1)].cash]

\* The largest of the first i values, and the drawdown of value i against it.
RunningPeak(i) ==
    CHOOSE v \in {CashSeries[j] : j \in 1..i} : \A j \in 1..i : CashSeries[j] <= v
DrawdownAt(i) == Rat((RunningPeak(i) - CashSeries[i]) * 100, RunningPeak(i))

\* The report computed from CashSeries, with its two worked examples.
ReportOfSeries ==
    LET report == Get(call.ret)
        n == Len(CashSeries)
    IN /\ report.final_balance = CashSeries[n]
       /\ report.pnl = CashSeries[n] - initial_cash
       /\ report.return_pct = Rat((CashSeries[n] - initial_cash) * 100, initial_cash)
       /\ \E i \in 1..n : report.max_drawdown_pct = DrawdownAt(i)
       /\ \A i \in 1..n : ~Greater(DrawdownAt(i), report.max_drawdown_pct)
       /\ (initial_cash = 1000 /\ CashSeries = <<1000, 500, 900>>) =>
             report = [final_balance |-> 900, pnl |-> -100,
                       return_pct |-> [n |-> -10, d |-> 1],
                       max_drawdown_pct |-> [n |-> 50, d |-> 1]]
       /\ (n = 1) =>
             report = [final_balance |-> initial_cash, pnl |-> 0,
                       return_pct |-> Zero, max_drawdown_pct |-> Zero]

\* C21: generate_report(initial_cash, log) takes the series initial_cash
\* followed by the cash column of every log row in order and returns its last
\* value as final balance, final - initial_cash as P&L, P&L / initial_cash *
\* 100 as return, and as max drawdown the largest (running peak - value) /
\* running peak * 100 over the series; for a ledger run BUY 5 @100 then SELL 5
\* @80 from cash 1000 that is 900, -100, -10 and 50, and with no log or no
\* rows initial_cash, 0, 0, 0.
C21_Report == IsReport => ReportOfSeries

\* The same on a log that starts with the header row: there it holds.
C21_ReportWithHeader == (IsReport /\ HeaderFirst) => ReportOfSeries

C21_Witness ==
    /\ IsReport
    /\ initial_cash = 1000
    /\ logFile = LossScenarioLog
    /\ CashSeries = <<1000, 500, 900>>
    /\ Get(call.ret).max_drawdown_pct = [n |-> 50, d |-> 1]

C21_PeakWitness ==
    /\ IsReport
    /\ HeaderFirst
    /\ initial_cash = 1
    /\ CashSeries = <<1, 2, 1>>
    /\ Get(call.ret).max_drawdown_pct = [n |-> 50, d |-> 1]

\* ------------------------------------------- ledger properties, continued

Anomaly == IsProcessOrder /\ call.outcome = "ErrStopTake"

\* The fill of quantity q at price p applied to the cash and to the position
\* the call found, every other entry of the map left as it was.
FillApplied(q, p) ==
    LET filled == PositionUpdate(Held, call.side, q, p) IN
    /\ cash = IF call.side = "BUY" THEN pre.cash - q * p ELSE pre.cash + q * p
    /\ cash # pre.cash
    /\ DOMAIN positions = DOMAIN pre.positions \cup {call.symbol}
    /\ \A s \in DOMAIN pre.positions \ {call.symbol} : positions[s] = pre.positions[s]
    /\ positions[call.symbol].quantity = filled.quantity
    /\ positions[call.symbol].quantity # Held.quantity
    /\ positions[call.symbol].avg_price = filled.avg_price

\* C22: an order that passes the quantity, price and funds or position checks
\* but carries a stop-loss >= its take-profit makes process_order raise after
\* the cash and the position's quantity and average price have changed: the
\* changes persist, the position's stop-loss and take-profit are not taken
\* from the order, and no log record is appended.
C22_OrderingAnomaly ==
    Anomaly =>
        /\ call.valid_quantity /\ call.valid_price
        /\ \E q \in Quantities, p \in Prices :
              /\ q > 0 /\ p > 0
              /\ IF call.side = "BUY" THEN q * p <= pre.cash ELSE q <= Held.quantity
              /\ FillApplied(q, p)
        /\ positions[call.symbol].stop_loss =
              IF positions[call.symbol].quantity > 0 THEN Held.stop_loss ELSE None
        /\ positions[call.symbol].take_profit =
              IF positions[call.symbol].quantity > 0 THEN Held.take_profit ELSE None
        /\ logFile = pre.logFile

\* A BUY raised at the cross-check on a position whose take-profit was 2: the
\* order's take-profit is at most its stop-loss 1, the position's stays 2.
C22_Witness ==
    /\ Anomaly
    /\ call.side = "BUY"
    /\ cash < pre.cash
    /\ positions[call.symbol].quantity > Held.quantity
    /\ Held.take_profit = Some(2)
    /\ positions[call.symbol].take_profit = Some(2)
    /\ positions[call.symbol].stop_loss = None

\* C23: between ledger operations every entry of the active map has quantity
\* > 0; a symbol whose quantity returned to zero, or that never had a
\* successful BUY, has no entry.
C23_OnlyOpenPositions == \A s \in DOMAIN positions : positions[s].quantity > 0

\* The same after an accepted order: there the map holds the order's symbol
\* only with a quantity > 0.
C23_AfterAccepted ==
    Accepted => (call.symbol \in DOMAIN positions => positions[call.symbol].quantity > 0)

\* A position sold to zero by a SELL that raised at the cross-check.
C23_ZeroEntryWitness ==
    /\ Anomaly
    /\ call.side = "SELL"
    /\ Held.quantity > 0
    /\ positions[call.symbol].quantity = 0

\* C24: after process_order returns without error the order's symbol has an
\* entry in the map exactly when the resulting quantity is > 0: a SELL of the
\* whole position removes the entry, a partial SELL and any BUY keep it.
C24_RemovalOnClose ==
    Accepted =>
        LET resulting == IF call.side = "BUY" THEN Held.quantity + LastRow.quantity
                         ELSE Held.quantity - LastRow.quantity
        IN /\ LastRow.symbol = call.symbol /\ LastRow.side = call.side
           /\ call.symbol \in DOMAIN positions <=> resulting > 0
           /\ call.symbol \in DOMAIN positions =>
                 positions[call.symbol].quantity = resulting
           /\ call.side = "BUY" => call.symbol \in DOMAIN positions
           /\ (call.side = "SELL" /\ LastRow.quantity < Held.quantity) =>
                 call.symbol \in DOMAIN positions
           /\ (call.side = "SELL" /\ LastRow.quantity = Held.quantity) =>
                 call.symbol \notin DOMAIN positions

\* A SELL of the whole position that removed the entry the BUY had made.
C24_Witness ==
    /\ Accepted
    /\ call.side = "SELL"
    /\ call.symbol \in DOMAIN pre.positions
    /\ LastRow.quantity = Held.quantity
    /\ call.symbol \notin DOMAIN positions

\* A partial SELL that kept the entry.
C24_PartialWitness ==
    /\ Accepted
    /\ call.side = "SELL"
    /\ LastRow.quantity < Held.quantity
    /\ call.symbol \in DOMAIN positions

\* C29: after any sequence of process_order calls on a ledger whose log was
\* empty at construction, the cash of the last log record equals the current
\* cash, and when the log has no record the cash equals initial_cash.
C29_LogAgreesWithLedger ==
    IF Len(DataRows) > 0 THEN LastRow.cash = cash ELSE cash = initial_cash

\* The same right after an accepted order: the row it appended shows the cash.
C29_AfterAccepted == Accepted => (Len(DataRows) > 0 /\ LastRow.cash = cash)

\* A first order raised at the cross-check: cash spent, no record.
C29_UnloggedFillWitness ==
    /\ Anomaly
    /\ Len(DataRows) = 0
    /\ cash < initial_cash

\* C30: for every reachable state and every current price, zero and negative
\* included, an order check_stop_take returns has quantity > 0 and price > 0,
\* names the queried symbol with side SELL, and is accepted by a process_order
\* that follows immediately.
C30_SyntheticOrdersValid ==
    /\ (IsCheck /\ call.ret # None) =>
          /\ Get(call.ret).quantity > 0
          /\ Get(call.ret).price > 0
          /\ Get(call.ret).symbol = call.symbol
          /\ Get(call.ret).side = "SELL"
    /\ (IsProcessOrder /\ call.fed) => call.outcome = "ok"

\* The same without the price: quantity, symbol and side are as claimed, and
\* the order is accepted when the current price is > 0.
C30_ValidButForPrice ==
    /\ (IsCheck /\ call.ret # None) =>
          /\ Get(call.ret).quantity > 0
          /\ Get(call.ret).price = call.current_price
          /\ Get(call.ret).symbol = call.symbol
          /\ Get(call.ret).side = "SELL"
    /\ (IsProcessOrder /\ call.fed /\ call.current_price > 0) => call.outcome = "ok"

\* The stop-loss exit at current price 0, rejected by process_order.
C30_ZeroPriceWitness ==
    /\ IsProcessOrder
    /\ call.fed
    /\ call.current_price = 0
    /\ call.outcome = "ErrPrice"
    /\ Unchanged

\* ------------------------------------- stop/take of one invocation at a time

\* The thread that stepped last has returned from process_order without
\* error, and no invocation overlapped another.
ReturnedAlone ==
    /\ ~race.overlap
    /\ LastEnded
    /\ threads[race.last].pc = "done"

\* The order of that invocation and the position it found for the symbol.
LastOrder == threads[race.last].order
FoundPosition ==
    IF LastOrder.symbol \in DOMAIN threads[race.last].start.positions
    THEN threads[race.last].start.positions[LastOrder.symbol]
    ELSE NewPosition(LastOrder.symbol)

\* C25: after an accepted order that leaves quantity > 0 the position's
\* stop-loss is the order's if the order carried one and is otherwise as it
\* was before the order, and likewise, independently, the take-profit; after
\* an accepted order that leaves quantity 0 both are empty; the appended log
\* record shows the resulting position's fields, not the order's.
C25_StopTakeUpdate ==
    ReturnedAlone =>
        LET symbol == LastOrder.symbol
            row == logFile[Len(logFile)]
        IN /\ Len(logFile) = Len(threads[race.last].start.logFile) + 1
           /\ row.symbol = symbol
           /\ IF Quantity(positions, symbol) > 0
              THEN /\ positions[symbol].stop_loss =
                         IF LastOrder.stop_loss # None THEN LastOrder.stop_loss
                         ELSE FoundPosition.stop_loss
                   /\ positions[symbol].take_profit =
                         IF LastOrder.take_profit # None THEN LastOrder.take_profit
                         ELSE FoundPosition.take_profit
                   /\ row.stop_loss = positions[symbol].stop_loss
                   /\ row.take_profit = positions[symbol].take_profit
              ELSE /\ symbol \notin DOMAIN positions
                   /\ row.stop_loss = None
                   /\ row.take_profit = None

\* An order carrying only a take-profit, on a position that had a stop-loss:
\* the stop-loss stays, the take-profit is the order's, the row shows both.
C25_Witness ==
    /\ ReturnedAlone
    /\ LastOrder.stop_loss = None
    /\ LastOrder.take_profit = Some(2)
    /\ FoundPosition.stop_loss = Some(1)
    /\ FoundPosition.take_profit = None
    /\ positions[LastOrder.symbol].stop_loss = Some(1)
    /\ positions[LastOrder.symbol].take_profit = Some(2)
    /\ logFile[Len(logFile)].stop_loss = Some(1)

\* A SELL of a whole position that had a stop-loss, the order carrying one
\* too: the row shows none.
C25_ClosedWitness ==
    /\ ReturnedAlone
    /\ LastOrder.side = "SELL"
    /\ LastOrder.stop_loss # None
    /\ FoundPosition.stop_loss # None
    /\ LastOrder.symbol \notin DOMAIN positions
    /\ logFile[Len(logFile)].stop_loss = None

\* ------------------------------------------- client properties, continued

\* The last step received a frame that is not a JSON object.
Malformed == obs.ev = [step |-> "frame", outcome |-> "malformed"]

\* C26: a frame that is not valid JSON, or is valid JSON but not an object,
\* ends subscribe_quotes with an AlorAPIError that is neither AlorAuthError
\* nor AlorConnectionError; the callback is not invoked for that frame,
\* attempts is not incremented, and no sleep and no reconnect take place.
C26_MalformedFrameFatal ==
    Malformed =>
        /\ Raised("AlorAPIError")
        /\ obs.callbacks = obs.prev.callbacks
        /\ Dispatched = obs.prev.dispatched
        /\ NoRetry

\* A malformed frame after a dispatched one, with reconnects still allowed.
C26_Witness ==
    /\ Malformed
    /\ Raised("AlorAPIError")
    /\ obs.callbacks = 1
    /\ sq.attempts < reconnect_attempts
    /\ obs.sleeps = 0

\* seq without its last element.
Front(seq) == SubSeq(seq, 1, Len(seq) - 1)

\* C27: within a connection frame k + 1 is not received until the callback
\* dispatch for frame k has completed, and the payloads passed to the callback
\* are exactly the well-formed frames received, in the same order, each once,
\* also when the callback is asynchronous.
C27_SequentialDispatch ==
    /\ sq.pc = "dispatch" =>
          /\ Len(obs.parsed) >= 1
          /\ obs.passed = Front(obs.parsed)
          /\ sq.payload = obs.parsed[Len(obs.parsed)]
          /\ obs.ev.step = "frame"
    /\ sq.pc # "dispatch" => obs.passed = obs.parsed
    /\ obs.ev.step = "frame" => obs.passed = obs.prev.passed
    /\ obs.callbacks = Len(obs.passed)

\* An async def callback that was awaited with two different payloads, in the
\* order of the frames, on one connection.
C27_Witness ==
    /\ sq.coroutine
    /\ sq.pc = "recv"
    /\ obs.connects = 1
    /\ obs.parsed = <<"p2", "p1">>
    /\ obs.passed = <<"p2", "p1">>
    /\ obs.dispatched = <<"p2", "p1">>

\* subscribe_quotes has ended, by returning or by raising one of its errors.
Ended == sq.pc = "done" /\ sq.result \in {"returned"} \cup Errors

\* C28: with max_messages set and reconnect_attempts >= 0, when every receive
\* eventually delivers a frame or fails and every callback dispatch and sleep
\* eventually completes, every run of subscribe_quotes eventually ends, by
\* returning or by raising AlorAuthError, AlorConnectionError or AlorAPIError:
\* it cannot connect and reconnect forever.
C28_Termination ==
    (sq.pc # "idle" /\ max_messages # None /\ reconnect_attempts >= 0) ~> Ended

\* A call that returned on its third connection, after two reconnects.
C28_Witness ==
    /\ Returned
    /\ max_messages = Some(2)
    /\ reconnect_attempts = 2
    /\ obs.connects = 3
    /\ obs.sleeps = 2

\* While a call is under way neither budget is used up: attempts is at most
\* reconnect_attempts and received is below max_messages.
C28_Budget ==
    (sq.pc \notin {"idle", "done"} /\ reconnect_attempts >= 0) =>
        /\ sq.attempts <= reconnect_attempts
        /\ max_messages # None => sq.received < Get(max_messages)

\* ------------------------------------------------------ stored thresholds

\* The position of symbol s is open and has both thresholds set.
BothSet(s) ==
    /\ s \in DOMAIN positions
    /\ positions[s].quantity > 0
    /\ positions[s].stop_loss # None
    /\ positions[s].take_profit # None

\* C31: after any sequence of process_order calls every open position that
\* has both a stop-loss and a take-profit set has stop-loss < take-profit,
\* also when the two were set by different orders each carrying one of them.
C31_StoredThresholdsOrdered ==
    \A s \in Symbols :
        BothSet(s) => Get(positions[s].stop_loss) < Get(positions[s].take_profit)

\* An accepted order on a position that had one threshold only left it with a
\* stop-loss that is not below its take-profit.
C31_UnorderedWitness ==
    /\ Accepted
    /\ Held.quantity > 0
    /\ (Held.stop_loss = None) # (Held.take_profit = None)
    /\ BothSet(call.symbol)
    /\ Get(positions[call.symbol].stop_loss) >= Get(positions[call.symbol].take_profit)

\* On a position that had no threshold before the order, the two set by one
\* accepted order are ordered.
C31_OneOrder ==
    (Accepted /\ Held.stop_loss = None /\ Held.take_profit = None
       /\ BothSet(call.symbol)) =>
        Get(positions[call.symbol].stop_loss) < Get(positions[call.symbol].take_profit)

C31_OneOrderWitness ==
    /\ Accepted
    /\ Held.stop_loss = None /\ Held.take_profit = None
    /\ BothSet(call.symbol)

====
